---- MODULE Spec2Model ----
(***************************************************************************)
(* The CSV cleaning functions of the repository as a state machine.        *)
(*                                                                         *)
(* The entry points modelled, each called once on a CSV payload:           *)
(*   handle_missing_values   src/data_cleaner_agent/data_cleaner.py        *)
(*   clean_duplicates        src/data_cleaner_agent/data_cleaner.py        *)
(*   clean_data_temp         src/preprocess_data_agent/server.py           *)
(*   clean_data_temp         src/remote_agent/server.py  (the remote one)  *)
(*   analyze_data            data_cleaner.py, data_cleaner_agent/agent.py  *)
(*                           and src/local_agent/agent.py                  *)
(* and the save_final_file and clear_cache calls of                        *)
(* src/data_cleaner_agent/agent.py that follow a clean_data_temp.          *)
(* A call advances statement by statement: Load (pd.read_csv), Dedup       *)
(* (drop_duplicates), one VisitColumn per iteration of the column loop,    *)
(* Save / Return.  pc = "returned" means the function returned `result`,   *)
(* pc = "raised" means an exception left the function.                     *)
(*                                                                         *)
(* Encoding of a CSV field / DataFrame cell as an integer:                 *)
(*   NaN        the empty field, a missing value                           *)
(*   Num(n)     the number n, stored as 2*n so that the median of two      *)
(*              integers (k + 0.5) is a cell value too                     *)
(*   TextX      the text "x"                                               *)
(* A column's dtype is fixed by read_csv: "numeric" when every non-empty   *)
(* field of the column is a numeral, "object" otherwise; in an object      *)
(* column a numeral is the string of its digits.  to_csv writes NaN as the *)
(* empty field, a number as its numeral and a string as itself; the        *)
(* int/float spelling of a numeral ("1" / "1.0") denotes the same number   *)
(* and is not distinguished.                                               *)
(*                                                                         *)
(* Series.fillna(value, inplace=True) on df[column] is modelled with the   *)
(* pandas 2.x behaviour (the column of the frame is filled).               *)
(***************************************************************************)
EXTENDS Integers, Sequences, FiniteSets, TLC

VARIABLES entry, data, critical_columns, pc, df, df_clean, idx,
          original_rows, duplicates_removed, actions_taken, result,
          files, first_result, calls, last_tool, reply

vars == <<entry, data, critical_columns, pc, df, df_clean, idx,
          original_rows, duplicates_removed, actions_taken, result,
          files, first_result, calls, last_tool, reply>>

\* The caller's side: the save_final_file / clear_cache calls made after a
\* clean_data_temp, the tool last called and what it returned.
caller == <<calls, last_tool, reply>>

-----------------------------------------------------------------------------
(* Bounds of the inputs.                                                   *)

\* Longest free prefix of rows of the payload.
MaxHead == 2
\* Largest number of complete, pairwise distinct rows that follow the prefix.
MaxPad == 20
\* Most save_final_file / clear_cache calls made on one temp file.
MaxCalls == 3
\* The numbers of such rows tried are 0 and MaxPad - PadWindow .. MaxPad.
PadWindow == 2

-----------------------------------------------------------------------------
(* Cells, CSV text and frames.                                             *)

NaN == -1
Num(n) == 2 * n
TextX == NaN - 1

IsNull(cell) == cell = NaN
IsNumeral(cell) == cell >= 0

Header == <<"customer_id", "amount">>
UnknownColumn == "product_id"
IndexColumn == "Unnamed: 0"

NONE == {"None"}

\* A frame with no row and no column: the value of a local not yet assigned.
NoFrame == [columns |-> <<>>, dtype |-> <<>>, rows |-> <<>>]
NoResult == [status |-> "pending"]

Range(s) == {s[i] : i \in 1..Len(s)}

\* len(df)
RowCount(frame) == Len(frame.rows)

\* The field of row `row` under column c; a short row is padded with NaN.
Field(row, c) == IF c <= Len(row) THEN row[c] ELSE NaN

\* pd.read_csv raises ParserError when a row after the first holds more
\* fields than the header.
ReadCsvFails(text) ==
    \E i \in 2..Len(text.rows) : Len(text.rows[i]) > Len(text.header)

\* pd.read_csv: the header gives the columns, each column's dtype is inferred
\* from all its fields.
ReadCsv(text) ==
    LET n == Len(text.header)
        rows == [i \in 1..Len(text.rows) |->
                    [c \in 1..n |-> Field(text.rows[i], c)]]
    IN [columns |-> text.header,
        dtype   |-> [c \in 1..n |->
                        IF \A i \in 1..Len(rows) :
                               IsNull(rows[i][c]) \/ IsNumeral(rows[i][c])
                        THEN "numeric" ELSE "object"],
        rows    |-> rows]

\* The mutant: to_csv() without index=False writes the row index as a first,
\* unnamed column.
ToCsvWithIndex(frame) ==
    [header |-> <<IndexColumn>> \o frame.columns,
     rows   |-> [i \in 1..Len(frame.rows) |-> <<Num(i - 1)>> \o frame.rows[i]]]

\* df.to_csv(index=False)
ToCsv(frame) == [header |-> frame.columns, rows |-> frame.rows]

-----------------------------------------------------------------------------
(* drop_duplicates                                                         *)

RECURSIVE KeepLastFrom(_, _, _)
KeepLastFrom(rows, i, acc) ==
    IF i > Len(rows) THEN acc
    ELSE IF \E j \in (i + 1)..Len(rows) : rows[j] = rows[i]
         THEN KeepLastFrom(rows, i + 1, acc)
         ELSE KeepLastFrom(rows, i + 1, Append(acc, rows[i]))

\* The mutant: drop_duplicates(keep='last').
DropDuplicatesKeepLast(frame) ==
    [frame EXCEPT !.rows = KeepLastFrom(frame.rows, 1, <<>>)]

\* DataFrame.duplicated(): rows are scanned in order against the set of row
\* values already seen (NaN equals NaN); an unseen row is kept.
RECURSIVE DedupFrom(_, _, _, _)
DedupFrom(rows, i, seen, acc) ==
    IF i > Len(rows) THEN acc
    ELSE IF rows[i] \in seen
         THEN DedupFrom(rows, i + 1, seen, acc)
         ELSE DedupFrom(rows, i + 1, seen \cup {rows[i]}, Append(acc, rows[i]))

\* df.drop_duplicates()
DropDuplicates(frame) ==
    [frame EXCEPT !.rows = DedupFrom(frame.rows, 1, {}, <<>>)]

\* The mutant: len(df.columns) for len(df).
OriginalRowsAsColumns(frame) == Len(frame.columns)

\* original_rows = len(df)
OriginalRows(frame) == RowCount(frame)

-----------------------------------------------------------------------------
(* The column loop of the missing-value resolvers.                         *)

\* df[column].isnull().sum()
MissingCount(frame, c) ==
    Cardinality({i \in 1..Len(frame.rows) : IsNull(frame.rows[i][c])})

RECURSIVE SelectRows(_, _, _, _)
SelectRows(rows, i, keep, acc) ==
    IF i > Len(rows) THEN acc
    ELSE SelectRows(rows, i + 1, keep,
                    IF i \in keep THEN Append(acc, rows[i]) ELSE acc)

\* The mutant: dropna() without subset= drops a row missing any column.
DropNaAnyColumn(frame, c) ==
    [frame EXCEPT !.rows =
        SelectRows(frame.rows, 1,
                   {i \in 1..Len(frame.rows) :
                       \A k \in 1..Len(frame.columns) : ~IsNull(frame.rows[i][k])},
                   <<>>)]

\* df.dropna(subset=[column])
DropNa(frame, c) ==
    [frame EXCEPT !.rows =
        SelectRows(frame.rows, 1,
                   {i \in 1..Len(frame.rows) : ~IsNull(frame.rows[i][c])},
                   <<>>)]

\* The non-null values of a column, as the set of their row positions.
NonNull(frame, c) == {i \in 1..Len(frame.rows) : ~IsNull(frame.rows[i][c])}

\* pd.api.types.is_numeric_dtype(df[column])
IsNumericDtype(frame, c) == frame.dtype[c] = "numeric"

\* The k-th smallest (k = 1 .. number of positions) value of column c over
\* the row positions `at`.
KthSmallest(frame, c, at, k) ==
    LET v(i) == frame.rows[i][c]
    IN CHOOSE x \in {v(i) : i \in at} :
           /\ Cardinality({i \in at : v(i) < x}) < k
           /\ Cardinality({i \in at : v(i) <= x}) >= k

\* Series.median(): NaN values are skipped; NaN when nothing is left.
Median(frame, c) ==
    LET at == NonNull(frame, c)
        n  == Cardinality(at)
    IN IF n = 0 THEN NaN
       ELSE IF n % 2 = 1 THEN KthSmallest(frame, c, at, (n + 1) \div 2)
       ELSE (KthSmallest(frame, c, at, n \div 2)
             + KthSmallest(frame, c, at, n \div 2 + 1)) \div 2

\* The characters of a string cell of an object column: the decimal digits
\* of a numeral, or the letter x (which sorts after every digit).
Chars(cell) ==
    IF cell = TextX THEN <<10>>
    ELSE LET n == cell \div 2
         IN IF n < 10 THEN <<n>> ELSE <<n \div 10, n % 10>>

\* Python's str ordering a < b.
StrLess(a, b) ==
    LET x == Chars(a)
        y == Chars(b)
    IN \/ x[1] < y[1]
       \/ /\ x[1] = y[1]
          /\ \/ Len(x) < Len(y)
             \/ Len(x) = Len(y) /\ Len(x) = 2 /\ x[2] < y[2]

\* Series.mode(): the most frequent non-null values, sorted; empty when the
\* column holds no non-null value.
Modes(frame, c) ==
    LET at == NonNull(frame, c)
        freq(x) == Cardinality({i \in at : frame.rows[i][c] = x})
    IN {x \in {frame.rows[i][c] : i \in at} :
           \A y \in {frame.rows[i][c] : i \in at} : freq(y) <= freq(x)}

\* Series.mode()[0] raises KeyError on the empty result.
ModeRaises(frame, c) == Modes(frame, c) = {}

\* Series.mode()[0]
Mode0(frame, c) ==
    LET m == Modes(frame, c)
    IN CHOOSE x \in m : \A y \in m \ {x} : StrLess(x, y)

\* df[column].fillna(value): every NaN of the column becomes value (fillna
\* with NaN changes nothing).
FillNa(frame, c, value) ==
    [frame EXCEPT !.rows =
        [i \in 1..Len(frame.rows) |->
            [frame.rows[i] EXCEPT ![c] = IF IsNull(@) THEN value ELSE @]]]

ThresholdPercent == 5
Hundred == 100

\* missing_percentage = (missing_count / n) * 100;  missing_percentage > 5.
\* In float64 the comparison agrees with the exact one for every n < 400.
AboveThreshold(missing_count, n) ==
    missing_count * Hundred > ThresholdPercent * n

\* The mutant: the loop without its `continue`.
NeverSkips(missing_count) == FALSE

\* if missing_count == 0: continue
Skips(missing_count) == missing_count = 0

\* The mutant: `column in critical_columns` tested on the list as a whole.
AnyCritical(column, critical) == critical # {}

\* column in critical_columns
InCritical(column, critical) == column \in critical

\* if critical_columns is None: critical_columns = <default>
DefaultCritical(e) ==
    IF e = "clean_data_temp" THEN {"customer_id", "product_id"} ELSE {}

EffectiveCritical(e, given) == IF given = NONE THEN DefaultCritical(e) ELSE given

\* The row count the percentage is taken of: handle_missing_values divides
\* by len(df), the frame as parsed; both clean_data_temp divide by
\* len(df_clean), the frame as it is when the column is visited.
Denominator(e, parsed, working) ==
    IF e = "handle_missing_values" THEN RowCount(parsed) ELSE RowCount(working)

\* The ActionRecord of a row-drop: handle_missing_values writes a reason and
\* the count under "removed_rows"; both clean_data_temp write no reason and
\* the count under "count".
RemovedRecord(e, column, reason, missing_count) ==
    IF e = "handle_missing_values"
    THEN [column |-> column, action |-> "removed_rows", reason |-> reason,
          removed_rows |-> missing_count]
    ELSE [column |-> column, action |-> "removed_rows", count |-> missing_count]

\* The ActionRecord of a fill.
FilledRecord(e, column, method, missing_count) ==
    IF e = "handle_missing_values"
    THEN [column |-> column, action |-> "filled",
          filled_values |-> missing_count, method |-> method]
    ELSE [column |-> column, action |-> "filled", method |-> method,
          count |-> missing_count]

\* One iteration of `for column in df.columns`, on column position c:
\* the frame and the records it leaves, or raised when mode()[0] raises.
VisitOutcome(e, parsed, working, c, critical) ==
    LET column        == working.columns[c]
        missing_count == MissingCount(working, c)
    IN IF Skips(missing_count)
       THEN [raised |-> FALSE, frame |-> working, log |-> <<>>]
       ELSE IF InCritical(column, critical)
       THEN [raised |-> FALSE, frame |-> DropNa(working, c),
             log |-> <<RemovedRecord(e, column, "critical_column", missing_count)>>]
       ELSE IF AboveThreshold(missing_count, Denominator(e, parsed, working))
       THEN IF IsNumericDtype(working, c)
            THEN [raised |-> FALSE,
                  frame |-> FillNa(working, c, Median(working, c)),
                  log |-> <<FilledRecord(e, column, "median", missing_count)>>]
            ELSE IF ModeRaises(working, c)
            THEN [raised |-> TRUE, frame |-> working, log |-> <<>>]
            ELSE [raised |-> FALSE,
                  frame |-> FillNa(working, c, Mode0(working, c)),
                  log |-> <<FilledRecord(e, column, "mode", missing_count)>>]
       ELSE [raised |-> FALSE, frame |-> DropNa(working, c),
             log |-> <<RemovedRecord(e, column, "low_threshold", missing_count)>>]

-----------------------------------------------------------------------------
(* Files.                                                                  *)

TempFile   == "results/<file_id>_temp_cleaned.csv"
RemoteFile == "files/<file_id>_cleaned.csv"
FinalFile  == "results/<file_id>_cleaned.csv"
UploadFile == "files/<file_id>_upload.csv"
FileNames  == {TempFile, RemoteFile, FinalFile, UploadFile}

EmptyText == [header |-> <<>>, rows |-> <<>>]
Absent == [exists |-> FALSE, content |-> EmptyText]
Written(text) == [exists |-> TRUE, content |-> text]

-----------------------------------------------------------------------------
(* Inputs.                                                                 *)

Analyzers == {"analyze_data", "analyze_data_agent", "analyze_data_local"}
Resolvers == {"handle_missing_values", "clean_data_temp", "clean_data_temp_remote"}
Entries == Resolvers \cup {"clean_duplicates"} \cup Analyzers

\* The header a payload may carry in place of Header: its first name with the
\* prefix save_upload_file repairs.
PrefixedHeader == <<"datacustomer_id", "amount">>

\* A free row holds an empty or numeric customer_id and an empty, numeric or
\* text amount.
HeadTokens == <<{NaN, Num(1)}, {NaN, Num(1), TextX}>>
HeadRows == {<<a, b>> : a \in HeadTokens[1], b \in HeadTokens[2]}
Heads == UNION {[1..n -> HeadRows] : n \in 0..MaxHead}

\* The i-th complete row: a key of its own and the amount 1.
PadRow(i) == <<Num(i), Num(1)>>
Pad(p) == [i \in 1..p |-> PadRow(i)]
PadSizes == {0} \cup {p \in (MaxPad - PadWindow)..MaxPad : p >= 0}

\* A row with one field more than the header has names.
RaggedRow == <<Num(1), Num(1), Num(1)>>
Tails == {<<>>, <<RaggedRow>>}

CriticalInputs == {NONE} \cup SUBSET {Header[1], Header[2], UnknownColumn}

\* The payloads with p rows after the free prefix.
Payloads(e, p) ==
    {[header |-> h, rows |-> head \o Pad(p) \o tail] :
        h \in IF e \in Analyzers THEN {Header, PrefixedHeader} ELSE {Header},
        head \in Heads,
        tail \in {t \in Tails : t # <<>> => p = 0}}
    \ {[header |-> h, rows |-> <<RaggedRow>>] : h \in {Header, PrefixedHeader}}

InitLocals ==
    /\ pc = "start"
    /\ df = NoFrame
    /\ df_clean = NoFrame
    /\ idx = 0
    /\ original_rows = 0
    /\ duplicates_removed = 0
    /\ actions_taken = <<>>
    /\ result = NoResult
    /\ files = [f \in FileNames |-> Absent]
    /\ first_result = NoResult
    /\ calls = 0
    /\ last_tool = "none"
    /\ reply = NoResult

Init ==
    /\ entry \in Entries
    /\ \E p \in PadSizes : data \in Payloads(entry, p)
    /\ critical_columns \in
          IF entry \in Resolvers THEN CriticalInputs ELSE {NONE}
    /\ InitLocals

-----------------------------------------------------------------------------
(* The steps of a call.                                                    *)

ErrorResult(message) == [status |-> "error", error_message |-> message]

\* The except branch that turns a failed pd.read_csv into an error result.
LoadFailed ==
    /\ pc = "start"
    /\ entry \notin Analyzers
    /\ \/ ReadCsvFails(data)
       \/ entry = "clean_data_temp_remote"   \* the URL cannot be fetched
    /\ pc' = "returned"
    /\ result' = ErrorResult("read_csv")
    /\ UNCHANGED caller
    /\ UNCHANGED <<entry, data, critical_columns, df, df_clean, idx,
                   original_rows, duplicates_removed, actions_taken, files,
                   first_result>>

\* handle_missing_values: read_csv, the default critical list, df.copy().
LoadResolver ==
    /\ pc = "start"
    /\ entry = "handle_missing_values"
    /\ ~ReadCsvFails(data)
    /\ df' = ReadCsv(data)
    /\ critical_columns' = EffectiveCritical(entry, critical_columns)
    /\ df_clean' = df'
    /\ actions_taken' = <<>>
    /\ idx' = 1
    /\ pc' = "loop"
    /\ UNCHANGED caller
    /\ UNCHANGED <<entry, data, original_rows, duplicates_removed, result,
                   files, first_result>>

\* clean_duplicates and both clean_data_temp: read_csv and len(df).
LoadCounted ==
    /\ pc = "start"
    /\ entry \in {"clean_duplicates", "clean_data_temp", "clean_data_temp_remote"}
    /\ ~ReadCsvFails(data)
    /\ df' = ReadCsv(data)
    /\ original_rows' = OriginalRows(df')
    /\ pc' = "dedup"
    /\ UNCHANGED caller
    /\ UNCHANGED <<entry, data, critical_columns, df_clean, idx,
                   duplicates_removed, actions_taken, result, files,
                   first_result>>

\* df.drop_duplicates() and the count of removed rows; in clean_data_temp
\* the default critical list and the empty action log follow.
Dedup ==
    /\ pc = "dedup"
    /\ df_clean' = DropDuplicates(df)
    /\ duplicates_removed' = original_rows - RowCount(df_clean')
    /\ IF entry = "clean_duplicates"
       THEN /\ pc' = "return"
            /\ UNCHANGED <<critical_columns, idx>>
       ELSE /\ critical_columns' = EffectiveCritical(entry, critical_columns)
            /\ idx' = 1
            /\ pc' = "loop"
    /\ actions_taken' = <<>>
    /\ UNCHANGED caller
    /\ UNCHANGED <<entry, data, df, original_rows, result, files, first_result>>

\* One iteration of the column loop.  A KeyError from mode()[0] leaves
\* handle_missing_values (its try covers read_csv only) and is turned into
\* an error result by the try of clean_data_temp.
VisitColumn ==
    /\ pc = "loop"
    /\ idx <= Len(df_clean.columns)
    /\ LET o == VisitOutcome(entry, df, df_clean, idx, critical_columns)
       IN IF o.raised
          THEN /\ IF entry = "handle_missing_values"
                  THEN pc' = "raised" /\ UNCHANGED result
                  ELSE pc' = "returned" /\ result' = ErrorResult("0")
               /\ UNCHANGED <<df_clean, actions_taken, idx>>
          ELSE /\ df_clean' = o.frame
               /\ actions_taken' = actions_taken \o o.log
               /\ idx' = idx + 1
               /\ UNCHANGED <<pc, result>>
    /\ UNCHANGED caller
    /\ UNCHANGED <<entry, data, critical_columns, df, original_rows,
                   duplicates_removed, files, first_result>>

\* handle_missing_values returns the cleaned text and the action log.
ReturnResolver ==
    /\ pc = "loop"
    /\ idx > Len(df_clean.columns)
    /\ entry = "handle_missing_values"
    /\ result' = [status |-> "success", cleaned_data |-> ToCsv(df_clean),
                  actions_taken |-> actions_taken]
    /\ pc' = "returned"
    /\ UNCHANGED caller
    /\ UNCHANGED <<entry, data, critical_columns, df, df_clean, idx,
                   original_rows, duplicates_removed, actions_taken, files,
                   first_result>>

Summary ==
    [original_rows |-> original_rows, final_rows |-> RowCount(df_clean),
     duplicates_removed |-> duplicates_removed, actions_taken |-> actions_taken]

\* clean_data_temp (preprocess): df_clean.to_csv(temp_file) and the result;
\* a failed write is caught and returned as an error.
SaveTemp ==
    /\ pc = "loop"
    /\ idx > Len(df_clean.columns)
    /\ entry = "clean_data_temp"
    /\ \/ /\ files' = [files EXCEPT ![TempFile] = Written(ToCsv(df_clean))]
          /\ result' = [status |-> "success", temp_file |-> TempFile,
                        file_id |-> "<file_id>",
                        cleaned_data |-> ToCsv(df_clean), summary |-> Summary]
       \/ /\ UNCHANGED files
          /\ result' = ErrorResult("to_csv")
    /\ pc' = "returned"
    /\ UNCHANGED caller
    /\ UNCHANGED <<entry, data, critical_columns, df, df_clean, idx,
                   original_rows, duplicates_removed, actions_taken,
                   first_result>>

\* clean_data_temp (remote): df_clean.to_csv(cleaned_file_path) and the result.
SaveRemote ==
    /\ pc = "loop"
    /\ idx > Len(df_clean.columns)
    /\ entry = "clean_data_temp_remote"
    /\ \/ /\ files' = [files EXCEPT ![RemoteFile] = Written(ToCsv(df_clean))]
          /\ result' = [status |-> "success", public_url |-> RemoteFile,
                        file_id |-> "<file_id>", summary |-> Summary]
       \/ /\ UNCHANGED files
          /\ result' = ErrorResult("to_csv")
    /\ pc' = "returned"
    /\ UNCHANGED caller
    /\ UNCHANGED <<entry, data, critical_columns, df, df_clean, idx,
                   original_rows, duplicates_removed, actions_taken,
                   first_result>>

\* clean_duplicates returns the deduplicated text and the removed count.
ReturnDuplicates ==
    /\ pc = "return"
    /\ result' = [status |-> "success", cleaned_data |-> ToCsv(df_clean),
                  removed_duplicates |-> duplicates_removed]
    /\ pc' = "returned"
    /\ UNCHANGED caller
    /\ UNCHANGED <<entry, data, critical_columns, df, df_clean, idx,
                   original_rows, duplicates_removed, actions_taken, files,
                   first_result>>

\* The caller passes the cleaned_data of clean_duplicates to a second call.
CallAgain ==
    /\ pc = "returned"
    /\ entry = "clean_duplicates"
    /\ result.status = "success"
    /\ first_result = NoResult
    /\ first_result' = result
    /\ data' = result.cleaned_data
    /\ pc' = "start"
    /\ df' = NoFrame
    /\ df_clean' = NoFrame
    /\ original_rows' = 0
    /\ duplicates_removed' = 0
    /\ result' = NoResult
    /\ UNCHANGED caller
    /\ UNCHANGED <<entry, critical_columns, idx, actions_taken, files>>

(***************************************************************************)
(* analyze_data: the three profilers.                                      *)
(***************************************************************************)

\* The mutant: the payload is saved as received.
SavedAsReceived(text) == text

\* save_upload_file: a payload that starts with 'datacustomer_id' has that
\* first occurrence replaced by 'customer_id' before it is written.
FixUpload(text) ==
    IF text.header # <<>> /\ text.header[1] = "datacustomer_id"
    THEN [text EXCEPT !.header[1] = "customer_id"]
    ELSE text

\* str(df[column].dtype) of a parsed column.
DtypeName(frame, c) ==
    IF RowCount(frame) = 0 \/ ~IsNumericDtype(frame, c) THEN "object"
    ELSE IF MissingCount(frame, c) > 0 THEN "float64" ELSE "int64"

\* df[column].nunique(): the distinct values, NaN not counted.
NUnique(frame, c) ==
    Cardinality({frame.rows[i][c] : i \in NonNull(frame, c)})

\* df.duplicated().sum()
Duplicated(frame) == RowCount(frame) - RowCount(DropDuplicates(frame))

\* df.isnull().sum().sum()
TotalMissing(frame) ==
    Cardinality({<<i, c>> \in (1..RowCount(frame)) \X (1..Len(frame.columns)) :
                    IsNull(frame.rows[i][c])})

\* The numbers the analysis_text shows: rows, columns, the first five column
\* names, duplicates, missing values, columns with missing data.
AnalysisText(frame) ==
    <<RowCount(frame), Len(frame.columns), frame.columns, Duplicated(frame),
      TotalMissing(frame),
      Cardinality({c \in 1..Len(frame.columns) : MissingCount(frame, c) > 0})>>

PerColumn(frame) ==
    [unique_values  |-> [c \in 1..Len(frame.columns) |-> NUnique(frame, c)],
     missing_values |-> [c \in 1..Len(frame.columns) |-> MissingCount(frame, c)],
     data_types     |-> [c \in 1..Len(frame.columns) |-> DtypeName(frame, c)]]

\* The profile each analyze_data returns for a parsed frame.
Profile(e, frame, upload) ==
    IF e = "analyze_data"
    THEN [status |-> "success", total_rows |-> RowCount(frame),
          total_columns |-> Len(frame.columns),
          unique_values  |-> PerColumn(frame).unique_values,
          missing_values |-> PerColumn(frame).missing_values,
          data_types     |-> PerColumn(frame).data_types]
    ELSE IF e = "analyze_data_agent"
    THEN [status |-> "success", analysis_text |-> AnalysisText(frame),
          total_rows |-> RowCount(frame),
          total_columns |-> Len(frame.columns),
          duplicates |-> Duplicated(frame),
          total_missing |-> TotalMissing(frame),
          unique_values  |-> PerColumn(frame).unique_values,
          missing_values |-> PerColumn(frame).missing_values,
          data_types     |-> PerColumn(frame).data_types]
    ELSE [status |-> "success", analysis_text |-> AnalysisText(frame),
          upload_path |-> upload.upload_path,
          public_url |-> upload.public_url,
          total_rows |-> RowCount(frame),
          total_columns |-> Len(frame.columns),
          duplicates |-> Duplicated(frame),
          total_missing |-> TotalMissing(frame)]

\* local_agent analyze_data, first statement: save_upload_file(data).  The
\* write either succeeds or raises, and a failed save is returned as it is.
SaveUpload ==
    /\ pc = "start"
    /\ entry = "analyze_data_local"
    /\ \/ /\ files' = [files EXCEPT ![UploadFile] = Written(FixUpload(data))]
          /\ result' = [status |-> "success", upload_path |-> UploadFile,
                        public_url |-> "http://localhost:8002/" \o UploadFile,
                        file_id |-> "<file_id>"]
          /\ pc' = "uploaded"
       \/ /\ UNCHANGED files
          /\ result' = ErrorResult("write")
          /\ pc' = "returned"
    /\ UNCHANGED caller
    /\ UNCHANGED <<entry, data, critical_columns, df, df_clean, idx,
                   original_rows, duplicates_removed, actions_taken,
                   first_result>>

\* Where an analyze_data reaches its pd.read_csv.
AtParse ==
    /\ entry \in Analyzers
    /\ pc = IF entry = "analyze_data_local" THEN "uploaded" ELSE "start"

\* analyze_data: pd.read_csv raises and the except branch returns the error.
AnalyzeFailed ==
    /\ AtParse
    /\ ReadCsvFails(data)
    /\ result' = ErrorResult("read_csv")
    /\ pc' = "returned"
    /\ UNCHANGED caller
    /\ UNCHANGED <<entry, data, critical_columns, df, df_clean, idx,
                   original_rows, duplicates_removed, actions_taken, files,
                   first_result>>

\* analyze_data: the payload parses and the profile is returned.
Analyze ==
    /\ AtParse
    /\ ~ReadCsvFails(data)
    /\ df' = ReadCsv(data)
    /\ result' = Profile(entry, df', result)
    /\ pc' = "returned"
    /\ UNCHANGED caller
    /\ UNCHANGED <<entry, data, critical_columns, df_clean, idx,
                   original_rows, duplicates_removed, actions_taken, files,
                   first_result>>

(***************************************************************************)
(* save_final_file and clear_cache, called with the file_id of a           *)
(* successful clean_data_temp.                                             *)
(***************************************************************************)

\* The mutant: the file is left where it is.
KeepFile(fs, name) == fs

\* os.remove(name)
RemoveFile(fs, name) == [fs EXCEPT ![name] = Absent]

\* The caller holds the file_id of a successful clean_data_temp and has
\* calls left.
MayCall ==
    /\ pc = "returned"
    /\ entry = "clean_data_temp"
    /\ result.status = "success"
    /\ calls < MaxCalls

\* save_final_file: without the temp file an error; else the temp file is
\* read back, written as the final file and removed.  Reading, writing and
\* removing can each raise, which ends the call with an error there.
SaveFinalFile ==
    /\ MayCall
    /\ calls' = calls + 1
    /\ last_tool' = "save_final_file"
    /\ IF ~files[TempFile].exists
       THEN /\ reply' = ErrorResult("Temp file not found")
            /\ UNCHANGED files
       ELSE IF ReadCsvFails(files[TempFile].content)
       THEN /\ reply' = ErrorResult("read_csv")
            /\ UNCHANGED files
       ELSE LET final == Written(ToCsv(ReadCsv(files[TempFile].content)))
                saved == [files EXCEPT ![FinalFile] = final]
            IN \/ /\ reply' = ErrorResult("to_csv")
                  /\ UNCHANGED files
               \/ /\ reply' = ErrorResult("remove")
                  /\ files' = saved
               \/ /\ reply' = [status |-> "success",
                               message |-> "File saved to " \o FinalFile]
                  /\ files' = RemoveFile(saved, TempFile)
    /\ UNCHANGED <<entry, data, critical_columns, pc, df, df_clean, idx,
                   original_rows, duplicates_removed, actions_taken, result,
                   first_result>>

\* clear_cache: the temp file is removed if it is there; os.remove can raise.
ClearCache ==
    /\ MayCall
    /\ calls' = calls + 1
    /\ last_tool' = "clear_cache"
    /\ \/ /\ reply' = [status |-> "success", message |-> "Cache cleared"]
          /\ files' = IF files[TempFile].exists
                      THEN RemoveFile(files, TempFile) ELSE files
       \/ /\ files[TempFile].exists
          /\ reply' = ErrorResult("remove")
          /\ UNCHANGED files
    /\ UNCHANGED <<entry, data, critical_columns, pc, df, df_clean, idx,
                   original_rows, duplicates_removed, actions_taken, result,
                   first_result>>

Next ==
    \/ LoadFailed
    \/ LoadResolver
    \/ LoadCounted
    \/ Dedup
    \/ VisitColumn
    \/ ReturnResolver
    \/ SaveTemp
    \/ SaveRemote
    \/ ReturnDuplicates
    \/ CallAgain
    \/ SaveUpload
    \/ AnalyzeFailed
    \/ Analyze
    \/ SaveFinalFile
    \/ ClearCache

Spec == Init /\ [][Next]_vars

-----------------------------------------------------------------------------
(* Vocabulary of the properties.                                           *)

Running == pc = "loop" /\ idx <= Len(df_clean.columns)

\* The step is a completed visit of the column at position idx.
VisitDone == Running /\ pc' = "loop" /\ idx' = idx + 1

\* The column being visited, its missing count and the live row count.
Column == df_clean.columns[idx]
Missing == MissingCount(df_clean, idx)
Live == RowCount(df_clean)

\* The rows of the working frame that hold a value in the visited column.
Complete == SelectSeq(df_clean.rows, LAMBDA row : row[idx] # NaN)

\* The record the step appended to the log, when it appended one.
Appended == actions_taken'[Len(actions_taken')]
AppendedOne ==
    /\ Len(actions_taken') = Len(actions_taken) + 1
    /\ SubSeq(actions_taken', 1, Len(actions_taken)) = actions_taken

\* The step dropped exactly the rows missing the visited column.
DroppedStep ==
    /\ df_clean'.rows = Complete
    /\ AppendedOne
    /\ Appended.action = "removed_rows"
    /\ Appended.column = Column

\* The step filled the visited column and removed no row.
FilledStep ==
    /\ Len(df_clean'.rows) = Live
    /\ \A i \in 1..Live : ~IsNull(df_clean'.rows[i][idx]) \/ IsNull(Median(df_clean, idx))
    /\ AppendedOne
    /\ Appended.action = "filled"
    /\ Appended.column = Column

Succeeded == pc = "returned" /\ result.status = "success"

\* The action log of a successful resolver call.
Log ==
    IF entry = "handle_missing_values" THEN result.actions_taken
    ELSE result.summary.actions_taken

RecordsOf(log, column) == {i \in 1..Len(log) : log[i].column = column}

-----------------------------------------------------------------------------
(* C1.  In every resolver the missing fraction of a non-critical column is *)
(* computed against the live row count at the moment the column is         *)
(* visited, never against the row count of the dataset before the pass.    *)
(* As written: the threshold test the code makes has the outcome of the    *)
(* test against the live row count.                                        *)
C1_LiveDenominator ==
    (Running /\ Missing > 0 /\ ~InCritical(Column, critical_columns)) =>
        (AboveThreshold(Missing, Denominator(entry, df, df_clean))
         <=> AboveThreshold(Missing, Live))

\* The same for both clean_data_temp alone.
C1_LiveDenominatorCleanDataTemp ==
    entry # "handle_missing_values" => C1_LiveDenominator

-----------------------------------------------------------------------------
(* C2.  As written: every input column with at least one missing value in  *)
(* the input has exactly one ActionRecord in the log, and every column     *)
(* named in a record is a column of the input.                             *)
C2_EveryInputMissingColumnLogged ==
    (Succeeded /\ entry \in Resolvers) =>
        /\ \A c \in 1..Len(df.columns) :
              MissingCount(df, c) > 0 =>
                  Cardinality(RecordsOf(Log, df.columns[c])) = 1
        /\ \A i \in 1..Len(Log) : Log[i].column \in Range(df.columns)

(* C2, amended.  In every successful resolver result a column has exactly  *)
(* one ActionRecord when it holds at least one missing value at its visit  *)
(* (after the row-drops made for earlier columns) and none otherwise; no   *)
(* column has two records, and every recorded column is an input column.   *)
C2_VisitedMissingColumnLogged ==
    /\ [][VisitDone =>
             IF Missing > 0
             THEN AppendedOne /\ Appended.column = Column
             ELSE actions_taken' = actions_taken]_vars
    /\ [](entry \in Resolvers /\ pc \in {"loop", "returned"} =>
             /\ \A i \in 1..Len(actions_taken) :
                   /\ actions_taken[i].column \in Range(df.columns)
                   /\ \E c \in 1..(idx - 1) : df.columns[c] = actions_taken[i].column
             /\ \A c \in 1..Len(df.columns) :
                   Cardinality(RecordsOf(actions_taken, df.columns[c])) <= 1
             /\ Succeeded => Log = actions_taken)

\* A successful result whose log lacks a column that had a missing value in
\* the input and holds a record of another column.
C2_Witness ==
    /\ Succeeded /\ entry \in Resolvers
    /\ Len(Log) = 1
    /\ \E c \in 1..Len(df.columns) :
          MissingCount(df, c) > 0 /\ RecordsOf(Log, df.columns[c]) = {}

-----------------------------------------------------------------------------
(* C3.  A critical column with at least one missing value at its visit has *)
(* exactly its missing rows dropped and nothing filled, whatever the       *)
(* missing fraction; a critical name that is no column changes nothing.    *)
C3_CriticalPrecedence ==
    /\ [][(VisitDone /\ Missing > 0 /\ Column \in critical_columns) =>
             /\ DroppedStep
             /\ \A i \in 1..Len(df_clean'.rows) : ~IsNull(df_clean'.rows[i][idx])]_vars
    /\ [](Running =>
             VisitOutcome(entry, df, df_clean, idx, critical_columns \cup {UnknownColumn})
             = VisitOutcome(entry, df, df_clean, idx, critical_columns \ {UnknownColumn}))

\* After the visit of a critical first column missing in more than 5% of the
\* rows, with a critical name that is no column: rows dropped, none filled.
C3_Witness ==
    /\ pc = "loop" /\ idx = 2
    /\ UnknownColumn \in critical_columns
    /\ df_clean.columns[1] \in critical_columns
    /\ Len(actions_taken) = 1
    /\ actions_taken[1].action = "removed_rows"
    /\ AboveThreshold(MissingCount(df, 1), RowCount(df))
    /\ RowCount(df_clean) >= 1
    /\ RowCount(df_clean) < RowCount(df)

-----------------------------------------------------------------------------
(* C4.  As written: a non-critical column with a missing value is filled   *)
(* if and only if its missing fraction (of the live row count) is strictly *)
(* greater than 5%; at exactly 5% and below its missing rows are dropped.  *)
C4_FillIffAboveFivePercent ==
    [][(VisitDone /\ Missing > 0 /\ Column \notin critical_columns) =>
          IF AboveThreshold(Missing, Live) THEN FilledStep ELSE DroppedStep]_vars

\* The same for both clean_data_temp alone.
C4_FillIffAboveFivePercentCleanDataTemp ==
    [][(VisitDone /\ Missing > 0 /\ Column \notin critical_columns
        /\ entry # "handle_missing_values") =>
          IF AboveThreshold(Missing, Live) THEN FilledStep ELSE DroppedStep]_vars

\* handle_missing_values with the fraction taken of len(df), as it computes it.
C4_FillIffAboveFivePercentOfParsed ==
    [][(VisitDone /\ Missing > 0 /\ Column \notin critical_columns
        /\ entry = "handle_missing_values") =>
          IF AboveThreshold(Missing, RowCount(df)) THEN FilledStep ELSE DroppedStep]_vars

-----------------------------------------------------------------------------
(* C5.  As written: in the log of every resolver entry point a             *)
(* removed_rows record carries a reason, critical_column exactly when its  *)
(* column is critical and low_threshold otherwise, and a filled record     *)
(* carries the method median or mode.                                      *)
C5_ReasonAndMethod ==
    (Succeeded /\ entry \in Resolvers) =>
        \A i \in 1..Len(Log) :
            /\ Log[i].action = "removed_rows" =>
                  /\ "reason" \in DOMAIN Log[i]
                  /\ Log[i].reason =
                        IF Log[i].column \in critical_columns
                        THEN "critical_column" ELSE "low_threshold"
            /\ Log[i].action = "filled" =>
                  /\ "method" \in DOMAIN Log[i]
                  /\ Log[i].method \in {"median", "mode"}

-----------------------------------------------------------------------------
(* C6.  As written: every failure inside a stage is returned as a result   *)
(* with status "error", an error_message and no cleaned dataset; no input  *)
(* makes a stage raise to its caller.                                      *)
C6_ErrorsAreReturned ==
    /\ pc # "raised"
    /\ pc = "returned" =>
          /\ result.status \in {"success", "error"}
          /\ result.status = "error" =>
                DOMAIN result = {"status", "error_message"}

-----------------------------------------------------------------------------
(* C7.  In every successful clean_data_temp result, original_rows =        *)
(* final_rows + duplicates_removed + the sum of count over the             *)
(* removed_rows records: each such count is the number of rows removed at  *)
(* that visit and a fill removes no row.                                   *)
RECURSIVE RemovedSum(_, _)
RemovedSum(log, i) ==
    IF i > Len(log) THEN 0
    ELSE (IF log[i].action = "removed_rows" THEN log[i].count ELSE 0)
         + RemovedSum(log, i + 1)

CleanDataTemp == {"clean_data_temp", "clean_data_temp_remote"}

C7_RowAccounting ==
    /\ []((Succeeded /\ entry \in CleanDataTemp) =>
             result.summary.original_rows =
                 result.summary.final_rows
                 + result.summary.duplicates_removed
                 + RemovedSum(result.summary.actions_taken, 1))
    /\ [][(VisitDone /\ entry \in CleanDataTemp /\ Missing > 0) =>
             /\ AppendedOne
             /\ Appended.action = "removed_rows" =>
                   Live - RowCount(df_clean') = Appended.count
             /\ Appended.action = "filled" => RowCount(df_clean') = Live]_vars

\* A successful clean_data_temp that removed a duplicate, dropped rows for
\* one column and filled the other.
C7_Witness ==
    /\ Succeeded /\ entry \in CleanDataTemp
    /\ result.summary.duplicates_removed > 0
    /\ result.summary.final_rows > 0
    /\ \E i, j \in 1..Len(Log) :
          /\ Log[i].action = "removed_rows" /\ Log[i].count > 0
          /\ Log[j].action = "filled"

-----------------------------------------------------------------------------
(* C8.  The final row count reported by the pipeline is at most the        *)
(* original one: deduplication never adds rows and the row count after     *)
(* each column's visit is at most the row count before it.                 *)
C8_RowsOnlyShrink ==
    /\ []((Succeeded /\ entry \in CleanDataTemp) =>
             /\ result.summary.final_rows <= result.summary.original_rows
             /\ result.summary.duplicates_removed >= 0)
    /\ []((Succeeded /\ entry = "handle_missing_values") =>
             Len(result.cleaned_data.rows) <= Len(data.rows))
    /\ [][pc = "dedup" => RowCount(df_clean') <= RowCount(df)]_vars
    /\ [][VisitDone => RowCount(df_clean') <= Live]_vars

\* A successful clean_data_temp reporting fewer rows than it was given,
\* after a duplicate and a row-drop.
C8_Witness ==
    /\ Succeeded /\ entry \in CleanDataTemp
    /\ result.summary.final_rows < result.summary.original_rows
    /\ result.summary.duplicates_removed > 0
    /\ \E i \in 1..Len(Log) : Log[i].action = "removed_rows"

-----------------------------------------------------------------------------
(* C9.  clean_duplicates returns exactly the rows whose tuple of values    *)
(* has not appeared in an earlier row (null equal to null), in their       *)
(* original order, and removed_duplicates is the input row count minus the *)
(* output row count.                                                       *)
FirstOccurrences(rows) ==
    {i \in 1..Len(rows) : \A j \in 1..(i - 1) : rows[j] # rows[i]}

\* The k-th smallest member of a set of positions.
KthPosition(positions, k) ==
    CHOOSE i \in positions : Cardinality({j \in positions : j <= i}) = k

C9_FirstOccurrencesInOrder ==
    (Succeeded /\ entry = "clean_duplicates") =>
        LET in   == ReadCsv(data).rows
            out  == result.cleaned_data.rows
            kept == FirstOccurrences(in)
        IN /\ Len(out) = Cardinality(kept)
           /\ \A k \in 1..Len(out) : out[k] = in[KthPosition(kept, k)]
           /\ result.removed_duplicates = Len(in) - Len(out)
           /\ result.cleaned_data.header = data.header

\* A first call that met a row again after a different row, removed it and
\* kept several rows.
C9_Witness ==
    /\ Succeeded /\ entry = "clean_duplicates" /\ first_result = NoResult
    /\ result.removed_duplicates >= 1
    /\ Len(result.cleaned_data.rows) >= 2
    /\ \E i, j \in 1..Len(data.rows) :
          /\ i + 1 < j
          /\ data.rows[i] = data.rows[j]
          /\ data.rows[i + 1] # data.rows[i]

-----------------------------------------------------------------------------
(* C10.  The Deduplicator run on its own output returns the same dataset   *)
(* and reports zero rows removed.                                          *)
C10_DedupIdempotent ==
    (pc = "returned" /\ entry = "clean_duplicates" /\ first_result # NoResult) =>
        /\ result.status = "success"
        /\ result.cleaned_data = first_result.cleaned_data
        /\ result.removed_duplicates = 0

\* The second call returned, after a first call that removed duplicates.
C10_Witness ==
    /\ pc = "returned" /\ entry = "clean_duplicates"
    /\ first_result # NoResult
    /\ first_result.removed_duplicates > 0
    /\ Len(first_result.cleaned_data.rows) >= 2
    /\ result.status = "success"

-----------------------------------------------------------------------------
(* C11.  As written: when the resolver fills a column, every missing value *)
(* of the column is replaced by one single value, the median of its        *)
(* non-null values among the rows still present (numeric) or one mode of   *)
(* them (non-numeric), while the row count, the column's non-missing       *)
(* values, every other column and the column order are unchanged.          *)

\* The step logged a fill of the visited column.
FillLogged == VisitDone /\ AppendedOne /\ Appended.action = "filled"

\* The values present in the visited column, one per row holding one.
Present == NonNull(df_clean, idx)
ValueAt(i) == df_clean.rows[i][idx]

\* The smallest present value with at least k present values at or below it.
RankValue(k) ==
    CHOOSE x \in {ValueAt(i) : i \in Present} :
        /\ Cardinality({i \in Present : ValueAt(i) <= x}) >= k
        /\ \A y \in {ValueAt(i) : i \in Present} :
              Cardinality({i \in Present : ValueAt(i) <= y}) >= k => x <= y

\* x is the median of the present values (cells hold twice the number).
IsMedian(x) ==
    LET n == Cardinality(Present)
    IN /\ n > 0
       /\ IF n % 2 = 1 THEN x = RankValue((n + 1) \div 2)
          ELSE 2 * x = RankValue(n \div 2) + RankValue(n \div 2 + 1)

\* x is one of the most frequent present values.
IsMode(x) ==
    /\ \E i \in Present : ValueAt(i) = x
    /\ \A j \in Present :
          Cardinality({i \in Present : ValueAt(i) = ValueAt(j)})
          <= Cardinality({i \in Present : ValueAt(i) = x})

\* The step replaced every missing value of the visited column by x and
\* changed nothing else.
FilledWith(x) ==
    /\ ~IsNull(x)
    /\ df_clean'.columns = df_clean.columns
    /\ df_clean'.dtype = df_clean.dtype
    /\ Len(df_clean'.rows) = Live
    /\ \A i \in 1..Live : \A c \in 1..Len(df_clean.columns) :
          df_clean'.rows[i][c] =
              IF c = idx /\ IsNull(df_clean.rows[i][c]) THEN x
              ELSE df_clean.rows[i][c]

FillEffect ==
    \E i \in 1..Live :
        LET x == df_clean'.rows[i][idx]
        IN /\ IsNull(df_clean.rows[i][idx])
           /\ FilledWith(x)
           /\ IF IsNumericDtype(df_clean, idx) THEN IsMedian(x) ELSE IsMode(x)
           /\ Appended.method =
                 IF IsNumericDtype(df_clean, idx) THEN "median" ELSE "mode"

C11_FillReplacesMissingOnly == [][FillLogged => FillEffect]_vars

\* The same for the fills of a column that holds a value at its visit.
C11_FillOfNonEmptyColumn ==
    [][(FillLogged /\ Present # {}) => FillEffect]_vars

-----------------------------------------------------------------------------
(* C12. The Analyzer (every analyze_data entry point) has no side effect:  *)
(* whether it returns a profile or an error for unparseable input, it      *)
(* creates, changes or removes no file and no other state outside its      *)
(* return value.                                                           *)
(* As stated it fails for analyze_data of local_agent, which saves the     *)
(* payload as an upload file before it parses it.  What holds: the two     *)
(* analyze_data of data_cleaner_agent change no file; analyze_data of      *)
(* local_agent writes exactly the upload file, once, before parsing, with  *)
(* the payload (a leading 'datacustomer_id' repaired to 'customer_id'),    *)
(* changes no other file, and leaves that file in place whether it then    *)
(* returns a profile or a parse error; none of them changes its payload.   *)
Analyzed == entry \in Analyzers /\ pc = "returned"

\* The payload as the upload file holds it.
Repaired(text) ==
    [header |-> [c \in 1..Len(text.header) |->
                    IF c = 1 /\ text.header[c] = "datacustomer_id"
                    THEN "customer_id" ELSE text.header[c]],
     rows   |-> text.rows]

-----------------------------------------------------------------------------
(* C13.  As written: whenever a resolver returns success the returned      *)
(* dataset has no missing value in any column, a column being free of      *)
(* missing values after its own visit; and the recorded filled count is    *)
(* the number of values actually filled, also when a numeric column has no *)
(* non-null value left at its visit.                                       *)

\* The dataset a successful resolver hands back: cleaned_data, or for the
\* remote clean_data_temp the file behind public_url.
Returned ==
    IF entry = "clean_data_temp_remote" THEN files[RemoteFile].content
    ELSE result.cleaned_data

NoMissing(rows) ==
    \A i \in 1..Len(rows) : \A c \in 1..Len(rows[i]) : ~IsNull(rows[i][c])

\* The count a filled record carries.
FilledCount(record) ==
    IF "count" \in DOMAIN record THEN record.count ELSE record.filled_values

\* The number of cells of the visited column the step changed.
CellsChanged ==
    Cardinality({i \in 1..Live : df_clean'.rows[i][idx] # df_clean.rows[i][idx]})

C13_NoMissingAfterSuccess ==
    /\ []((Succeeded /\ entry \in Resolvers) => NoMissing(Returned.rows))
    /\ [][VisitDone =>
             \A i \in 1..Len(df_clean'.rows) : ~IsNull(df_clean'.rows[i][idx])]_vars
    /\ [][FillLogged => FilledCount(Appended) = CellsChanged]_vars

\* The same for the visits of a column that holds a value.
C13_NoMissingWhenValuePresent ==
    /\ [][(VisitDone /\ Present # {}) =>
             \A i \in 1..Len(df_clean'.rows) : ~IsNull(df_clean'.rows[i][idx])]_vars
    /\ [][(FillLogged /\ Present # {}) => FilledCount(Appended) = CellsChanged]_vars

-----------------------------------------------------------------------------
(* C14.  As written: for the temp file produced by one clean_data_temp     *)
(* call and any sequence of save_final_file and clear_cache calls on it,   *)
(* the final '<file_id>_cleaned.csv' file is written only by a             *)
(* save_final_file call that found the temp file present; a successful     *)
(* save_final_file or any clear_cache leaves the temp file absent; once    *)
(* the temp file is absent every later save_final_file returns status      *)
(* error ('Temp file not found') and changes no file, while clear_cache    *)
(* still returns success.                                                  *)
(* This fails for a clear_cache whose os.remove raises: it returns an      *)
(* error and the temp file stays.  With "a successful clear_cache" in      *)
(* place of "any clear_cache" the statement holds.                         *)
Called(tool) == calls' = calls + 1 /\ last_tool' = tool
TempPresent == files[TempFile].exists
TempProduced ==
    entry = "clean_data_temp" /\ Succeeded /\ result.temp_file = TempFile

\* The final file is written only by a save_final_file that found the temp
\* file, and then it holds what the temp file held.
FinalWrittenBySave ==
    [][files'[FinalFile] # files[FinalFile] =>
          /\ Called("save_final_file")
          /\ TempProduced
          /\ TempPresent
          /\ files'[FinalFile].exists
          /\ ReadCsv(files'[FinalFile].content) =
                 ReadCsv(files[TempFile].content)]_vars

\* Without the temp file, save_final_file is an error that changes no file
\* and clear_cache a success that changes none; and the temp file, once
\* absent, stays absent.
AfterTempAbsent ==
    /\ [][(Called("save_final_file") /\ ~TempPresent) =>
             reply' = ErrorResult("Temp file not found") /\ UNCHANGED files]_vars
    /\ [][(Called("clear_cache") /\ ~TempPresent) =>
             reply'.status = "success" /\ UNCHANGED files]_vars
    /\ [][(TempProduced /\ ~TempPresent) => ~files'[TempFile].exists]_vars

C14_AnyClearCacheRemovesTemp ==
    /\ FinalWrittenBySave
    /\ [][((Called("save_final_file") /\ reply'.status = "success")
            \/ Called("clear_cache")) => ~files'[TempFile].exists]_vars
    /\ AfterTempAbsent

C14_SuccessfulCallRemovesTemp ==
    /\ FinalWrittenBySave
    /\ [][((Called("save_final_file") \/ Called("clear_cache"))
            /\ reply'.status = "success") => ~files'[TempFile].exists]_vars
    /\ [][((Called("save_final_file") \/ Called("clear_cache"))
            /\ reply'.status # "success") => files'[TempFile] = files[TempFile]]_vars
    /\ AfterTempAbsent

\* A save_final_file wrote the final file and removed the temp file, and the
\* save_final_file called after it was refused.
C14_Witness ==
    /\ TempProduced
    /\ calls >= 2
    /\ files[FinalFile].exists
    /\ ~TempPresent
    /\ last_tool = "save_final_file"
    /\ reply = ErrorResult("Temp file not found")

====
